---- MODULE Spec2Model ----
(***************************************************************************)
(* Interactive FIFA Data Dashboard (streamlit_app.py).                     *)
(*                                                                         *)
(* One Streamlit process serves the script.  Every user interaction        *)
(* re-runs the script top to bottom: load_data() (memoised by              *)
(* st.cache_data), the sidebar widgets, the row filter, the count, the two *)
(* plotly charts and the groupby/mean/sort/head aggregate.  An uncaught    *)
(* exception ends the run at the statement that raised it.                 *)
(*                                                                         *)
(* Text is modelled as sequences of character codes (ASCII), so that       *)
(* parsing, ordering and equality of strings are computed, not assumed.    *)
(***************************************************************************)
EXTENDS Integers, Sequences, FiniteSets, TLC

VARIABLES
    file,                   \* "FIFA DATA.csv" as it is on disk now
    edits,                  \* how many times the file was rewritten on disk
    cache,                  \* st.cache_data entry of load_data(): <<>> or <<df>>
    reads,                  \* number of pd.read_csv calls made by this process
    first,                  \* <<>> or <<df>>: what the first read_csv returned
    script_df,              \* <<>> or <<table>>: the script's df when the last run ended
    narrowed,               \* some run of the process showed fewer rows than the table has
    last_load,              \* "none", or how the last run's load_data() was served: "miss", "hit"
    age_range,              \* widget state "Select Age Range"
    overall_range,          \* widget state "Select Overall Rating Range"
    selected_nationalities, \* widget state "Select Nationalities"
    show_raw,               \* widget state "Show raw data"
    bins,                   \* widget state "Number of bins for histogram"
    bubble_scale,           \* widget state "Bubble size scale factor"
    halt,                   \* 0: the last run reached the end; else the line that raised
    filtered_df,            \* the last run's filtered_df (rows)
    shown_count,            \* the last run's "Filtered Players" number
    club_avg                \* the last run's club_avg (rows)

vars == <<file, edits, cache, reads, first, script_df, narrowed, last_load, age_range, overall_range,
          selected_nationalities, show_raw, bins, bubble_scale, halt,
          filtered_df, shown_count, club_avg>>

(***************************************************************************)
(* Bounds of the model.                                                    *)
(***************************************************************************)
MaxRows == 12
MaxEdits == 1

(***************************************************************************)
(* Text                                                                    *)
(***************************************************************************)
Min2(a, b) == IF a <= b THEN a ELSE b

\* Python's str < str: lexicographic by code point, a proper prefix is smaller
StrLess(s, t) ==
    \E i \in 1..(Min2(Len(s), Len(t)) + 1) :
        /\ \A j \in 1..(i - 1) : s[j] = t[j]
        /\ \/ i = Len(s) + 1 /\ i <= Len(t)
           \/ i <= Len(s) /\ i <= Len(t) /\ s[i] < t[i]

IsDigits(s) == Len(s) > 0 /\ \A i \in 1..Len(s) : s[i] \in 48..57

RECURSIVE DigitsValue(_)
DigitsValue(s) ==
    IF s = <<>> THEN 0
    ELSE 10 * DigitsValue(SubSeq(s, 1, Len(s) - 1)) + (s[Len(s)] - 48)

(***************************************************************************)
(* Cells of a DataFrame: an integer, a str, or NaN (a missing value).      *)
(***************************************************************************)
NaN == [k |-> "nan", n |-> 0, s |-> <<>>]
IntCell(v) == [k |-> "int", n |-> v, s |-> <<>>]
StrCell(t) == [k |-> "str", n |-> 0, s |-> t]
isna(c) == c.k = "nan"

Fields == {"Age", "OverallRating", "Nationality", "Club"}

\* pd.read_csv's type inference for one column: an empty field is a missing
\* value; the column is numeric when every field that is present is a
\* number, and otherwise every field that is present stays the text it is
ColumnIsNumeric(rows, c) ==
    \A i \in 1..Len(rows) : rows[i][c] = <<>> \/ IsDigits(rows[i][c])

ParseCell(t, numeric) ==
    IF t = <<>> THEN NaN
    ELSE IF numeric THEN IntCell(DigitsValue(t))
    ELSE StrCell(t)

\* the table read_csv returns: the columns named by the header, one row per
\* line in file order, labelled by the default RangeIndex 0, 1, 2, ...
ParseField(f, i, c) ==
    IF c \in f.header
    THEN ParseCell(f.rows[i][c], ColumnIsNumeric(f.rows, c))
    ELSE NaN

read_csv(f) ==
    [columns |-> f.header,
     rows |-> [i \in 1..Len(f.rows) |->
                 [idx |-> i - 1,
                  Age |-> ParseField(f, i, "Age"),
                  OverallRating |-> ParseField(f, i, "OverallRating"),
                  Nationality |-> ParseField(f, i, "Nationality"),
                  Club |-> ParseField(f, i, "Club")]]]

(***************************************************************************)
(* load_data(), memoised by @st.cache_data: the first call reads the file, *)
(* every later call of the process returns the stored table.               *)
(***************************************************************************)
\* load_data() without the decorator: every call reads the file
load_data_uncached(c, f, n) ==
    [df |-> read_csv(f), cache |-> <<read_csv(f)>>, reads |-> n + 1]

\* c is the cache entry, f the file on disk, n the reads made so far
load_data(c, f, n) ==
    IF c = <<>>
    THEN [df |-> read_csv(f), cache |-> <<read_csv(f)>>, reads |-> n + 1]
    ELSE [df |-> c[1], cache |-> c, reads |-> n]

(***************************************************************************)
(* Column reductions used to set up the sliders (lines 112 and 116).       *)
(***************************************************************************)
Column(df, c) == {df.rows[i][c] : i \in 1..Len(df.rows)}
Present(df, c) == Column(df, c) \ {NaN}
HasStr(df, c) == \E x \in Column(df, c) : x.k = "str"

StrMin(S) == CHOOSE x \in S : \A y \in S : x = y \/ StrLess(x.s, y.s)
StrMax(S) == CHOOSE x \in S : \A y \in S : x = y \/ StrLess(y.s, x.s)
IntMin(S) == CHOOSE x \in S : \A y \in S : x.n <= y.n
IntMax(S) == CHOOSE x \in S : \A y \in S : x.n >= y.n

\* int(df[c].min()), int(df[c].max()): [ok, lo, hi]; ok is FALSE when the
\* statement raises: KeyError (no such column), ValueError (int of NaN when
\* no value is present, int of a str that is not a number), TypeError (min
\* over str mixed with NaN).  Of the texts int() accepts, the model's files
\* hold only plain digits.
Bounds(df, c) ==
    IF c \notin df.columns \/ Present(df, c) = {} THEN [ok |-> FALSE, lo |-> 0, hi |-> 0]
    ELSE IF HasStr(df, c)
    THEN IF /\ NaN \notin Column(df, c)
            /\ IsDigits(StrMin(Present(df, c)).s)
            /\ IsDigits(StrMax(Present(df, c)).s)
         THEN [ok |-> TRUE,
               lo |-> DigitsValue(StrMin(Present(df, c)).s),
               hi |-> DigitsValue(StrMax(Present(df, c)).s)]
         ELSE [ok |-> FALSE, lo |-> 0, hi |-> 0]
    ELSE [ok |-> TRUE, lo |-> IntMin(Present(df, c)).n, hi |-> IntMax(Present(df, c)).n]

\* sorted(df['Nationality'].unique()) raises KeyError without the column and
\* TypeError when it has to order a str against NaN
NationalityOptionsOk(df) ==
    /\ "Nationality" \in df.columns
    /\ ~(HasStr(df, "Nationality") /\ NaN \in Column(df, "Nationality"))

nationality_options(df) == Column(df, "Nationality")

(***************************************************************************)
(* Apply Filters (lines 124-128).                                          *)
(***************************************************************************)
\* Series >= int and Series <= int, element by element: NaN compares False
GeInt(x, v) == x.k = "int" /\ x.n >= v

\* Series < int in the place of Series <= int
LeIntStrict(x, v) == x.k = "int" /\ x.n < v

LeInt(x, v) == x.k = "int" /\ x.n <= v

\* a comparison that takes text for a value that passes no test
ComparesCoerced(df) == TRUE

\* a column holding a str cannot be compared with an int: TypeError
ComparesOk(df) == ~HasStr(df, "Age") /\ ~HasStr(df, "OverallRating")

\* the mask with an empty selection of nationalities read as no restriction
FilterMaskEmptyIsAll(df, ages, overalls, nats) ==
    [i \in 1..Len(df.rows) |->
        /\ GeInt(df.rows[i].Age, ages[1]) /\ LeInt(df.rows[i].Age, ages[2])
        /\ GeInt(df.rows[i].OverallRating, overalls[1])
        /\ LeInt(df.rows[i].OverallRating, overalls[2])
        /\ (nats = {} \/ df.rows[i].Nationality \in nats)]

\* the boolean Series of lines 125-127, one entry per row of df
FilterMask(df, ages, overalls, nats) ==
    [i \in 1..Len(df.rows) |->
        /\ GeInt(df.rows[i].Age, ages[1]) /\ LeInt(df.rows[i].Age, ages[2])
        /\ GeInt(df.rows[i].OverallRating, overalls[1])
        /\ LeInt(df.rows[i].OverallRating, overalls[2])
        /\ df.rows[i].Nationality \in nats]

RECURSIVE TakeKept(_, _)
TakeKept(rows, mask) ==
    IF rows = <<>> THEN <<>>
    ELSE IF mask[1]
         THEN <<rows[1]>> \o TakeKept(Tail(rows), Tail(mask))
         ELSE TakeKept(Tail(rows), Tail(mask))

\* the mask applied one row late
TakeMaskShifted(rows, mask) ==
    IF rows = <<>> THEN <<>>
    ELSE TakeKept(rows, <<FALSE>> \o SubSeq(mask, 1, Len(mask) - 1))

\* df[mask]: the rows whose mask is True, in the table's order, as a new table
RECURSIVE TakeMask(_, _)
TakeMask(rows, mask) ==
    IF rows = <<>> THEN <<>>
    ELSE IF mask[1]
         THEN <<rows[1]>> \o TakeMask(Tail(rows), Tail(mask))
         ELSE TakeMask(Tail(rows), Tail(mask))

ApplyFilters(df, ages, overalls, nats) ==
    TakeMask(df.rows, FilterMask(df, ages, overalls, nats))

(***************************************************************************)
(* Top 10 clubs by average rating (lines 177-178).                         *)
(***************************************************************************)
TopN == 10

RECURSIVE Gcd(_, _)
Gcd(a, b) == IF b = 0 THEN a ELSE Gcd(b, a % b)

\* the quotient total / n as a number: a fraction in lowest terms, so that
\* equal quotients are equal values (150 / 2 = 75 / 1); for ratings and
\* counts of this size the float64 quotients are equal, and ordered, exactly
\* as the fractions are
Quotient(total, n) ==
    [num |-> total \div Gcd(total, n), den |-> n \div Gcd(total, n)]

NumLess(p, q) == p.num * q.den < q.num * p.den

RECURSIVE SumRating(_)
SumRating(rows) ==
    IF rows = <<>> THEN 0 ELSE rows[1].OverallRating.n + SumRating(Tail(rows))

\* the order of group keys: numbers by value, text as Python orders str
KeyLess(a, b) ==
    IF a.k = "int" /\ b.k = "int" THEN a.n < b.n ELSE StrLess(a.s, b.s)

RECURSIVE SortedKeys(_)
SortedKeys(S) ==
    IF S = {} THEN <<>>
    ELSE LET m == CHOOSE x \in S : \A y \in S : x = y \/ KeyLess(x, y)
         IN  <<m>> \o SortedKeys(S \ {m})

RECURSIVE TrimBlank(_)
TrimBlank(t) ==
    IF t # <<>> /\ t[Len(t)] = 32 THEN TrimBlank(SubSeq(t, 1, Len(t) - 1)) ELSE t

\* grouping that takes names apart only up to trailing blanks
RowsOfClubTrimmed(rows, club) ==
    SelectSeq(rows, LAMBDA r : r.Club.k = club.k /\ r.Club.n = club.n
                               /\ TrimBlank(r.Club.s) = TrimBlank(club.s))

\* the rows of one group: the rows whose Club is the key, value for value
RowsOfClub(rows, club) == SelectSeq(rows, LAMBDA r : r.Club = club)

\* the keys groupby('Club') forms: the values of Club that occur, a missing
\* Club (NaN) forms no group (dropna=True)
ClubKeys(rows) == {rows[i].Club : i \in 1..Len(rows)} \ {NaN}

\* filtered_df.groupby('Club', as_index=False)['OverallRating'].mean(): one
\* row per key, in key order (sort=True)
GroupMean(rows) ==
    LET keys == SortedKeys(ClubKeys(rows))
    IN  [i \in 1..Len(keys) |->
            [Club |-> keys[i],
             OverallRating |->
                Quotient(SumRating(RowsOfClub(rows, keys[i])),
                         Len(RowsOfClub(rows, keys[i])))]]

RECURSIVE Orderings(_)
Orderings(S) ==
    IF S = {} THEN {<<>>}
    ELSE UNION {{<<x>> \o p : p \in Orderings(S \ {x})} : x \in S}

\* sort_values(by='OverallRating', ascending=False) with the default
\* kind='quicksort', which is not a stable sort: rows come out in
\* non-increasing order of the mean, rows with equal means in any order.
\* The set of the orders the call can return.
RECURSIVE SortOutcomes(_)
SortOutcomes(S) ==
    IF S = {} THEN {<<>>}
    ELSE LET top == {x \in S : \A y \in S : ~NumLess(x.OverallRating, y.OverallRating)}
         IN  UNION {{p \o q : q \in SortOutcomes(S \ top)} : p \in Orderings(top)}

sort_values(groups) == SortOutcomes({groups[i] : i \in 1..Len(groups)})

\* the last n rows in the place of the first n
head_last(rows, n) == SubSeq(rows, Len(rows) - Min2(n, Len(rows)) + 1, Len(rows))

\* DataFrame.head(n): the first n rows, all of them when there are fewer
head(rows, n) == SubSeq(rows, 1, Min2(n, Len(rows)))

\* the values club_avg can have after line 178
Aggregate(rows) == {head(s, TopN) : s \in sort_values(GroupMean(rows))}

(***************************************************************************)
(* One run of the script (lines 104-188) on the table load_data() returned *)
(* and the session's widget state.                                         *)
(***************************************************************************)
DefaultBins == 20
DefaultBubble == 30

\* a widget whose value is not taken from the session
WidgetDefault(state, default) == default

\* what a widget call returns: the session's value, or the default when the
\* session holds none
Widget(state, default) == IF state = <<>> THEN default ELSE state[1]

\* the session's value for a widget after it was rendered: the value the
\* browser sent, or the default the widget registered
Register(state, returned) == IF state = <<>> THEN <<returned>> ELSE state

\* px.scatter(filtered_df, size='Value ', hover_name='Name', ...) raises
\* ValueError when a named column is not in the table (the fields of
\* 'Value ' and 'Name' are not modelled: they are taken to be plottable)
ScatterOk(df) == "Value " \in df.columns /\ "Name" \in df.columns

\* the selection bound to the name df itself
df_overwritten(table, fdf) == [table EXCEPT !.rows = fdf]

\* line 124 binds the selection to a new name: the name df keeps its table
df_after_filter(table, fdf) == table

NoRun ==
    [halt |-> 0, age_range |-> <<>>, overall_range |-> <<>>,
     selected_nationalities |-> <<>>, show_raw |-> <<>>, bins |-> <<>>,
     bubble_scale |-> <<>>, filtered_df |-> <<>>, shown_count |-> 0,
     outcomes |-> {<<>>}, df |-> <<>>]

\* The result of a run: the line of the statement that raised (0 when the
\* run reached the end), the widgets rendered with their session values,
\* the values of filtered_df and of the count written to the sidebar, and
\* the values club_avg can take.  What a halted run never computed is left
\* as in NoRun.
RunScript(table, w) ==
    LET a == Bounds(table, "Age")
        o == Bounds(table, "OverallRating")
        ages == Widget(w.age_range, <<a.lo, a.hi>>)
        overalls == Widget(w.overall_range, <<o.lo, o.hi>>)
        nats == Widget(w.selected_nationalities, nationality_options(table))
        fdf == ApplyFilters(table, ages, overalls, nats)
        s113 == [NoRun EXCEPT !.df = <<table>>,
                              !.age_range = Register(w.age_range, ages)]
        s117 == [s113 EXCEPT !.overall_range = Register(w.overall_range, overalls)]
        s121 == [s117 EXCEPT !.selected_nationalities =
                                 Register(w.selected_nationalities, nats)]
        s139 == [s121 EXCEPT !.df = <<df_after_filter(table, fdf)>>,
                             !.filtered_df = fdf,
                             !.shown_count = Len(fdf),
                             !.show_raw = Register(w.show_raw, FALSE),
                             !.bins = Register(w.bins, DefaultBins),
                             !.bubble_scale = Register(w.bubble_scale, DefaultBubble)]
    IN  IF ~a.ok THEN [NoRun EXCEPT !.halt = 112, !.df = <<table>>]
        ELSE IF ~o.ok THEN [s113 EXCEPT !.halt = 116]
        ELSE IF ~NationalityOptionsOk(table) THEN [s117 EXCEPT !.halt = 120]
        ELSE IF ~ComparesOk(table) THEN [s121 EXCEPT !.halt = 124]
        ELSE IF ~ScatterOk(table) THEN [s139 EXCEPT !.halt = 160]
        ELSE IF "Club" \notin table.columns THEN [s139 EXCEPT !.halt = 177]
        ELSE [s139 EXCEPT !.outcomes = Aggregate(fdf)]

(***************************************************************************)
(* The files the process may find on disk.                                 *)
(***************************************************************************)
RECURSIVE Digits(_)
Digits(v) ==
    IF v < 10 THEN <<48 + v>> ELSE Digits(v \div 10) \o <<48 + (v % 10)>>

AllColumns == {"Name", "Age", "OverallRating", "Nationality", "Club", "Value "}

Line(age, rating, nat, club) ==
    [Age |-> age, OverallRating |-> rating, Nationality |-> nat, Club |-> club]

Argentina == <<65, 82>>
Brazil == <<66, 82>>
ClubName(i) == <<64 + i>>

\* three names that differ only by case or by a trailing blank
NearName(i) ==
    IF i % 3 = 0 THEN <<65>> ELSE IF i % 3 = 1 THEN <<65, 32>> ELSE <<97>>

\* the club of player i: a club of his own, one club for two players, a
\* player without a club among players with one, near-equal names
ClubOf(shape, i) ==
    IF shape = "own" THEN ClubName(i)
    ELSE IF shape = "pair" THEN ClubName((i + 1) \div 2)
    ELSE IF shape = "gap" THEN (IF i = 2 THEN <<>> ELSE ClubName(i))
    ELSE NearName(i)

\* the rating of player i of n: all different, or the players who come 10th
\* and 11th from the top (2nd and 3rd of three) rated alike
TieRow(n) == IF n > TopN THEN n - TopN + 1 ELSE 3
RatingOf(shape, n, i) == IF shape = "tie" /\ i = TieRow(n) THEN 70 + i - 1 ELSE 70 + i

Shapes ==
    {<<"own", "rise">>, <<"own", "tie">>, <<"pair", "rise">>,
     <<"gap", "rise">>, <<"near", "rise">>}

Roster(n, shape) ==
    [header |-> AllColumns,
     rows |-> [i \in 1..n |->
                 Line(Digits(20 + (i % 3)), Digits(RatingOf(shape[2], n, i)),
                      IF i % 2 = 1 THEN Argentina ELSE Brazil,
                      ClubOf(shape[1], i))]]

Long == {<<"own", "rise">>, <<"own", "tie">>}

\* short tables of every shape, and long ones with more clubs than the chart shows
Rosters ==
    {Roster(n, shape) : n \in {0, 1, 3}, shape \in Shapes \ Long}
    \cup {Roster(MaxRows, shape) : shape \in Long}

\* three players, two of one club
Trio(age2, rating2) ==
    <<Line(Digits(20), Digits(70), Argentina, ClubName(24)),
      Line(age2, rating2, Brazil, ClubName(25)),
      Line(Digits(30), Digits(80), Argentina, ClubName(24))>>

\* "2x" and "abc" in Age, "7x" in OverallRating, an empty Age
BadCells ==
    {<<<<50, 120>>, Digits(90)>>, <<<<97, 98, 99>>, Digits(90)>>,
     <<Digits(25), <<55, 120>>>>, <<<<>>, Digits(90)>>}

Files ==
    Rosters
    \cup {[header |-> AllColumns \ gone, rows |-> Trio(Digits(25), Digits(90))] :
             gone \in {{}} \cup {{c} : c \in AllColumns}}
    \cup {[header |-> AllColumns, rows |-> Trio(b[1], b[2])] : b \in BadCells}

\* a rewrite of the file on disk: one more player at the end
Rewritten(f) ==
    [f EXCEPT !.rows = Append(f.rows, Line(Digits(21), Digits(99), Argentina, ClubName(26)))]

(***************************************************************************)
(* The process.                                                            *)
(***************************************************************************)
Init ==
    /\ file \in Files
    /\ edits = 0
    /\ cache = <<>>
    /\ reads = 0
    /\ first = <<>>
    /\ script_df = <<>>
    /\ narrowed = FALSE
    /\ last_load = "none"
    /\ age_range = <<>>
    /\ overall_range = <<>>
    /\ selected_nationalities = <<>>
    /\ show_raw = <<>>
    /\ bins = <<>>
    /\ bubble_scale = <<>>
    /\ halt = 0
    /\ filtered_df = <<>>
    /\ shown_count = 0
    /\ club_avg = <<>>

Session ==
    [age_range |-> age_range, overall_range |-> overall_range,
     selected_nationalities |-> selected_nationalities, show_raw |-> show_raw,
     bins |-> bins, bubble_scale |-> bubble_scale]

NoSession ==
    [age_range |-> <<>>, overall_range |-> <<>>, selected_nationalities |-> <<>>,
     show_raw |-> <<>>, bins |-> <<>>, bubble_scale |-> <<>>]

\* Streamlit runs the script with widget state w: df = load_data(), then the
\* rest of the script; the page shows what the run produced
Rerun(w) ==
    \E ld \in {load_data(cache, file, reads)} : \E r \in {RunScript(ld.df, w)} :
        /\ cache' = ld.cache
        /\ reads' = ld.reads
        /\ first' = IF first = <<>> THEN ld.cache ELSE first
        /\ script_df' = r.df
        /\ narrowed' = (narrowed \/ (r.halt \notin 1..124 /\ r.shown_count < Len(ld.df.rows)))
        /\ last_load' = IF ld.reads > reads THEN "miss"
                        ELSE IF edits > 0 THEN "hit after edit" ELSE "hit"
        /\ age_range' = r.age_range
        /\ overall_range' = r.overall_range
        /\ selected_nationalities' = r.selected_nationalities
        /\ show_raw' = r.show_raw
        /\ bins' = r.bins
        /\ bubble_scale' = r.bubble_scale
        /\ halt' = r.halt
        /\ filtered_df' = r.filtered_df
        /\ shown_count' = r.shown_count
        /\ club_avg' \in r.outcomes
        /\ UNCHANGED <<file, edits>>

\* a browser opens or reloads the page: a new session, every widget at its default
OpenPage == Rerun(NoSession)

\* the values a user is taken to drag a slider over min..max to
Picks(mn, mx) == {mn, mn + 1, mx} \cap (mn..mx)

SetAgeRange ==
    /\ age_range # <<>>
    /\ \E lo, hi \in Picks(Bounds(cache[1], "Age").lo, Bounds(cache[1], "Age").hi) :
          /\ lo <= hi
          /\ Rerun([Session EXCEPT !.age_range = <<<<lo, hi>>>>])

SetOverallRange ==
    /\ overall_range # <<>>
    /\ \E lo, hi \in Picks(Bounds(cache[1], "OverallRating").lo,
                            Bounds(cache[1], "OverallRating").hi) :
          /\ lo <= hi
          /\ Rerun([Session EXCEPT !.overall_range = <<<<lo, hi>>>>])

SetNationalities ==
    /\ selected_nationalities # <<>>
    /\ \E S \in SUBSET nationality_options(cache[1]) :
          Rerun([Session EXCEPT !.selected_nationalities = <<S>>])

ToggleShowRaw ==
    /\ show_raw # <<>>
    /\ Rerun([Session EXCEPT !.show_raw = <<~show_raw[1]>>])

SetBins ==
    /\ bins # <<>>
    /\ \E b \in {10, DefaultBins} : Rerun([Session EXCEPT !.bins = <<b>>])

SetBubbleScale ==
    /\ bubble_scale # <<>>
    /\ \E b \in {DefaultBubble, 100} :
          Rerun([Session EXCEPT !.bubble_scale = <<b>>])

\* the file on disk is rewritten while the process serves
EditFile ==
    /\ cache # <<>>
    /\ edits < MaxEdits
    /\ file' = Rewritten(file)
    /\ edits' = edits + 1
    /\ UNCHANGED <<cache, reads, first, script_df, narrowed, last_load, age_range, overall_range,
                   selected_nationalities, show_raw, bins, bubble_scale, halt,
                   filtered_df, shown_count, club_avg>>

Next ==
    \/ OpenPage
    \/ SetAgeRange
    \/ SetOverallRange
    \/ SetNationalities
    \/ ToggleShowRaw
    \/ SetBins
    \/ SetBubbleScale
    \/ EditFile

Spec == Init /\ [][Next]_vars

(***************************************************************************)
(* What the claims speak of.                                               *)
(***************************************************************************)
Dataset == cache[1]

\* the last run computed filtered_df and the count (it passed line 130)
FilterRan == cache # <<>> /\ halt \notin 1..124

\* the last run computed club_avg (it reached the end)
AggregateRan == cache # <<>> /\ halt = 0

\* the three inclusive tests of the current FilterCriteria on a record
Satisfies(r) ==
    /\ r.Age.k = "int"
    /\ age_range[1][1] <= r.Age.n /\ r.Age.n <= age_range[1][2]
    /\ r.OverallRating.k = "int"
    /\ overall_range[1][1] <= r.OverallRating.n
    /\ r.OverallRating.n <= overall_range[1][2]
    /\ r.Nationality \in selected_nationalities[1]

Members(rows, club) == {j \in 1..Len(rows) : rows[j].Club = club}

RECURSIVE TotalOver(_, _)
TotalOver(rows, S) ==
    IF S = {} THEN 0
    ELSE LET j == CHOOSE x \in S : TRUE
         IN  rows[j].OverallRating.n + TotalOver(rows, S \ {j})

ClubsIn(rows) == {rows[j].Club : j \in 1..Len(rows)} \ {NaN}

\* every entry of ca is the mean of the rows of its club, one entry a club
MeansOf(ca, rows) ==
    \A i \in 1..Len(ca) :
        /\ ca[i].Club \in ClubsIn(rows)
        /\ ca[i].OverallRating.den > 0
        /\ ca[i].OverallRating.num * Cardinality(Members(rows, ca[i].Club))
              = TotalOver(rows, Members(rows, ca[i].Club)) * ca[i].OverallRating.den
        /\ \A k \in 1..Len(ca) : k # i => ca[k].Club # ca[i].Club

\* ca holds min(10, k) clubs of rows, best first, and no club left out is
\* rated above one that is in
TopOf(ca, rows) ==
    /\ Len(ca) = Min2(TopN, Cardinality(ClubsIn(rows)))
    /\ \A i \in 1..(Len(ca) - 1) : ~NumLess(ca[i].OverallRating, ca[i + 1].OverallRating)
    /\ \A c \in ClubsIn(rows) \ {ca[i].Club : i \in 1..Len(ca)} :
          \A i \in 1..Len(ca) :
              TotalOver(rows, Members(rows, c)) * ca[i].OverallRating.den
                <= ca[i].OverallRating.num * Cardinality(Members(rows, c))

\* C1: the FilteredView is exactly the subsequence of the Dataset, in the
\* Dataset's order, of the records that pass the three inclusive tests:
\* every record in it is a Dataset record that passes, every Dataset record
\* that passes is in it exactly once, and the order is the Dataset's.
C1_FilterExact ==
    FilterRan =>
        /\ \A i \in 1..Len(filtered_df) :
              /\ filtered_df[i].idx + 1 \in 1..Len(Dataset.rows)
              /\ filtered_df[i] = Dataset.rows[filtered_df[i].idx + 1]
              /\ Satisfies(filtered_df[i])
        /\ \A j \in 1..Len(Dataset.rows) :
              Satisfies(Dataset.rows[j]) =>
                  Cardinality({i \in 1..Len(filtered_df) : filtered_df[i].idx = j - 1}) = 1
        /\ \A i, k \in 1..Len(filtered_df) :
              i < k => filtered_df[i].idx < filtered_df[k].idx

C1_Witness ==
    /\ FilterRan
    /\ age_range[1] # <<Bounds(Dataset, "Age").lo, Bounds(Dataset, "Age").hi>>
    /\ overall_range[1] #
          <<Bounds(Dataset, "OverallRating").lo, Bounds(Dataset, "OverallRating").hi>>
    /\ selected_nationalities[1] # nationality_options(Dataset)
    /\ Len(filtered_df) >= 2
    /\ \E i \in 1..(Len(filtered_df) - 1) : filtered_df[i + 1].idx > filtered_df[i].idx + 1

\* C2: every entry of the ClubAggregate names a club of the FilteredView,
\* no club has two entries, and the entry's value is the sum of the ratings
\* over the count of exactly the FilteredView records of that club.
C2_MeansOfView == AggregateRan => MeansOf(club_avg, filtered_df)

\* a club in the chart with a record of the Dataset that the filter left out
C2_Witness ==
    /\ AggregateRan
    /\ \E i \in 1..Len(club_avg) :
          /\ Cardinality(Members(filtered_df, club_avg[i].Club)) >= 1
          /\ Cardinality(Members(Dataset.rows, club_avg[i].Club))
                > Cardinality(Members(filtered_df, club_avg[i].Club))
          /\ club_avg[i].OverallRating.num * Cardinality(Members(Dataset.rows, club_avg[i].Club))
                # TotalOver(Dataset.rows, Members(Dataset.rows, club_avg[i].Club))
                    * club_avg[i].OverallRating.den

\* C3: with k clubs in the FilteredView the ClubAggregate has min(10, k)
\* entries in non-increasing order of mean, and no club left out has a mean
\* above that of a club kept.
C3_TopTen == AggregateRan => TopOf(club_avg, filtered_df)

C3_Witness ==
    /\ AggregateRan
    /\ Cardinality(ClubsIn(filtered_df)) > TopN
    /\ Len(club_avg) = TopN

\* the Dataset has the columns the script names and numbers where the
\* filter compares numbers
WellFormed(t) ==
    /\ AllColumns \subseteq t.columns
    /\ ~HasStr(t, "Age")
    /\ ~HasStr(t, "OverallRating")

CriteriaSet ==
    age_range # <<>> /\ overall_range # <<>> /\ selected_nationalities # <<>>

\* C4: when no record of a well-formed Dataset passes the FilterCriteria,
\* the run reaches the end: the FilteredView is empty, the count shown is 0
\* and the ClubAggregate is empty.
C4_EmptyView ==
    (/\ cache # <<>>
     /\ CriteriaSet
     /\ WellFormed(Dataset)
     /\ \A j \in 1..Len(Dataset.rows) : ~Satisfies(Dataset.rows[j]))
    => (halt = 0 /\ filtered_df = <<>> /\ shown_count = 0 /\ club_avg = <<>>)

C4_Witness ==
    /\ AggregateRan
    /\ Len(Dataset.rows) > 0
    /\ selected_nationalities[1] = {}
    /\ filtered_df = <<>> /\ shown_count = 0 /\ club_avg = <<>>

\* C5: what the page shows is the filter and the aggregate of the whole
\* cached Dataset under the current FilterCriteria, whatever came before
\* and whatever the bin count, the bubble scale and the raw-data box are.
C5_CurrentCriteriaOnly ==
    FilterRan =>
        /\ filtered_df = SelectSeq(Dataset.rows, Satisfies)
        /\ shown_count = Len(SelectSeq(Dataset.rows, Satisfies))
        /\ halt = 0 =>
              /\ MeansOf(club_avg, SelectSeq(Dataset.rows, Satisfies))
              /\ TopOf(club_avg, SelectSeq(Dataset.rows, Satisfies))

\* every row is shown again after a run that showed fewer, the three
\* plot options off their defaults
C5_Witness ==
    /\ AggregateRan
    /\ narrowed
    /\ Len(Dataset.rows) > 1
    /\ filtered_df = Dataset.rows
    /\ show_raw[1] /\ bins[1] # DefaultBins /\ bubble_scale[1] # DefaultBubble

\* C6: the process reads the file at most once: the first load_data() reads
\* it, every later one is served the table first read.
C6_LoadOnce ==
    /\ reads <= 1
    /\ (reads = 0) = (cache = <<>>)
    /\ (reads = 0) = (last_load = "none")
    /\ cache # <<>> => cache = first

C6_Witness ==
    /\ last_load = "hit after edit"
    /\ reads = 1
    /\ Dataset # read_csv(file)

\* C7: filtering the FilteredView again with the same FilterCriteria gives
\* the FilteredView, same records in the same order.
C7_Idempotent ==
    FilterRan =>
        ApplyFilters([columns |-> Dataset.columns, rows |-> filtered_df],
                     age_range[1], overall_range[1], selected_nationalities[1])
          = filtered_df

C7_Witness ==
    /\ FilterRan
    /\ Len(filtered_df) >= 2
    /\ Len(filtered_df) < Len(Dataset.rows)

\* C8: after any run the table the script holds as df and the cached
\* Dataset are the table first loaded, rows, order and values.
C8_DatasetUntouched ==
    cache # <<>> => (script_df = first /\ cache = first)

C8_Witness ==
    /\ AggregateRan
    /\ narrowed
    /\ Len(Dataset.rows) > 0
    /\ filtered_df = <<>>
    /\ script_df = first

ColumnAbsent(t) == ~(AllColumns \subseteq t.columns)
FilterColumnAbsent(t) == ~({"Age", "OverallRating", "Nationality"} \subseteq t.columns)
TextInNumeric(t) == HasStr(t, "Age") \/ HasStr(t, "OverallRating")
MissingInNumeric(t) == NaN \in Column(t, "Age") \cup Column(t, "OverallRating")

\* a halted run showed nothing that comes after the statement that raised
NothingAfterHalt ==
    /\ halt # 0 => club_avg = <<>>
    /\ halt \in 1..124 =>
          /\ filtered_df = <<>> /\ shown_count = 0
          /\ show_raw = <<>> /\ bins = <<>> /\ bubble_scale = <<>>
    /\ halt \in 1..120 => selected_nationalities = <<>>
    /\ halt \in 1..116 => overall_range = <<>>
    /\ halt \in 1..112 => age_range = <<>>

\* what a run did compute, it computed from every row of the Dataset
NothingPartial ==
    FilterRan =>
        /\ shown_count = Len(filtered_df)
        /\ \A j \in 1..Len(Dataset.rows) :
              Satisfies(Dataset.rows[j]) =>
                  \E i \in 1..Len(filtered_df) : filtered_df[i] = Dataset.rows[j]

====
